---- MODULE Spec2Model ----
(***************************************************************************)
(* uHouse: fixed-point wireframe animation on an ATmega328P with an        *)
(* SSD1306 display (src/uHouse_ssd1306_128x64_i2c.ino).                    *)
(*                                                                         *)
(* The model has the frame driver loop(), the Timer1 compare interrupt     *)
(* that samples the frame counter, the fixed-point primitive rotate and    *)
(* the transform-and-project pipeline.  int is 16 bits wide on the AVR     *)
(* target; every value the code stores in an int16_t is narrowed with      *)
(* ToInt16, and >> on a negative value is the arithmetic shift avr-gcc     *)
(* emits (floor division by a power of two).                               *)
(*                                                                         *)
(* Three specifications are given:                                         *)
(*   Spec        loop() one statement at a time, the interrupt able to     *)
(*               fire between any two steps, also between the load and     *)
(*               the store of ++fps_counter; MaxFrames iterations.         *)
(*   SpecFrames  loop() one whole iteration per step, over the complete    *)
(*               360-frame animation cycle; the interrupt between frames.  *)
(*   SpecRotate  rotate applied to inputs drawn from RotateInputs.         *)
(***************************************************************************)
EXTENDS Integers, Sequences, FiniteSets

VARIABLES
  rotation,          \* vec2 rotation                      (line 180)
  location,          \* vec2 location                      (line 191)
  rotation_counter,  \* uint16_t rotation_counter          (line 198)
  location_counter,  \* uint16_t location_counter          (line 199)
  screen_verts,      \* vec2 screen_verts[NUM_VERTS]       (line 166)
  fps_counter,       \* uint8_t fps_counter                (line 204)
  fps_display,       \* uint8_t fps_display                (line 205)
  pc,                \* the statement of loop() that runs next
  i,                 \* the index variable of the for loop that is running
  reg,               \* the register ++fps_counter loads fps_counter into
  calls,             \* the calls made on display in the current loop() call
  written,           \* how often each screen_verts entry was written in it
  serial,            \* the last line printed on Serial, <<>> before any
  completed,         \* loop() calls completed since start or the last firing
  event,             \* the step taken last
  rin,               \* SpecRotate: the operands v, a, b
  rout               \* SpecRotate: the two results, <<>> before the call

vars ==
  << rotation, location, rotation_counter, location_counter, screen_verts,
     fps_counter, fps_display, pc, i, reg, calls, written, serial,
     completed, event, rin, rout >>

----------------------------------------------------------------------------
\* Bounds of the model.

\* Spec: loop() is entered while location_counter, which counts the frames,
\* is below MaxFrames.
MaxFrames == 3

\* SpecFrames: the timer fires before more than MaxFps frames are counted.
MaxFps == 3

\* SpecRotate: operands are taken within Spread of the anchor operands.
Spread == 1

----------------------------------------------------------------------------
\* Program constants.

SCREEN_WIDTH == 128

SCREEN_HEIGHT == 64

\* The mesh placed 0x800 nearer to the camera.
MESH_DEPTH_Shallow == 10752 - 2048

\* #define MESH_DEPTH 0x2a00
MESH_DEPTH == 10752

NUM_VERTS == 57

NUM_INDICES == 136

\* The spin reset one frame early.
ROTATION_PERIOD_Short == 120 - 1

\* if (++rotation_counter >= 120)
ROTATION_PERIOD == 120

\* if (++location_counter >= 360)
LOCATION_PERIOD == 360

V2(a, b) == [x |-> a, y |-> b]

V3(a, b, c) == [x |-> a, y |-> b, z |-> c]

mesh_verts ==
  <<
    V3(2048, 2048, 2048), V3(-2048, 2048, 2048), V3(-2048, -2048, 2048),
    V3(2048, -2048, 2048), V3(2048, 2048, -2048), V3(-2048, 2048, -2048),
    V3(-2048, -2048, -2048), V3(2048, -2048, -2048), V3(0, -5120, 0),
    V3(-256, 2048, -2048), V3(-1536, 2048, -2048), V3(-1536, 512, -2048),
    V3(-256, 512, -2048), V3(1280, -512, -2048), V3(512, -512, -2048),
    V3(512, -1280, -2048), V3(1280, -1280, -2048), V3(-2048, 1280, 512),
    V3(-2048, 1280, 1280), V3(-2048, 512, 1280), V3(-2048, 512, 512),
    V3(-2048, 2048, 2816), V3(2048, 2048, 2816), V3(2048, 1280, 2816),
    V3(1024, 1280, 2816), V3(512, 512, 2816), V3(-1536, 512, 2816),
    V3(-2048, 1280, 2816), V3(-2048, 2048, 4608), V3(2048, 2048, 4608),
    V3(2048, 1280, 4608), V3(1024, 1280, 4608), V3(512, 512, 4608),
    V3(-1536, 512, 4608), V3(-2048, 1280, 4608), V3(4096, 2048, 0),
    V3(4096, -5120, 0), V3(4096, 512, 0), V3(5120, -4096, 0),
    V3(3072, -4096, 0), V3(4096, -4096, 1024), V3(4096, -4096, -1024),
    V3(-2048, 2048, 0), V3(-5120, 2048, 0), V3(-5120, 512, 0),
    V3(-4608, 0, 0), V3(-4096, 512, 0), V3(-3584, 0, 0),
    V3(-3072, 512, 0), V3(-2560, 0, 0), V3(-2048, 512, 0),
    V3(-4096, 2048, 0), V3(-3072, 2048, 0), V3(-256, 2048, -2304),
    V3(-1536, 2048, -2304), V3(-1536, 2048, -3072), V3(-256, 2048, -3072)
  >>

\* The edge list with every index one too high (indices counted from 1).
mesh_indices_OneBased ==
  <<
    1, 2, 2, 3, 3, 4, 4, 1, 5, 6, 6, 7, 7, 8, 8, 5,
    1, 5, 2, 6, 3, 7, 4, 8, 3, 9, 4, 9, 7, 9, 8, 9,
    11, 12, 12, 13, 13, 10, 14, 15, 15, 16, 16, 17, 17, 14, 18, 19,
    19, 20, 20, 21, 21, 18, 22, 23, 23, 24, 24, 25, 25, 26, 26, 27,
    27, 28, 28, 22, 29, 30, 30, 31, 31, 32, 32, 33, 33, 34, 34, 35,
    35, 29, 22, 29, 23, 30, 24, 31, 25, 32, 26, 33, 27, 34, 28, 35,
    36, 37, 38, 39, 38, 40, 38, 41, 38, 42, 43, 44, 44, 45, 45, 46,
    46, 47, 47, 48, 48, 49, 49, 50, 50, 51, 51, 43, 47, 52, 49, 53,
    54, 55, 55, 56, 56, 57, 57, 54
  >>

mesh_indices ==
  <<
    0, 1, 1, 2, 2, 3, 3, 0, 4, 5, 5, 6, 6, 7, 7, 4,
    0, 4, 1, 5, 2, 6, 3, 7, 2, 8, 3, 8, 6, 8, 7, 8,
    10, 11, 11, 12, 12, 9, 13, 14, 14, 15, 15, 16, 16, 13, 17, 18,
    18, 19, 19, 20, 20, 17, 21, 22, 22, 23, 23, 24, 24, 25, 25, 26,
    26, 27, 27, 21, 28, 29, 29, 30, 30, 31, 31, 32, 32, 33, 33, 34,
    34, 28, 21, 28, 22, 29, 23, 30, 24, 31, 25, 32, 26, 33, 27, 34,
    35, 36, 37, 38, 37, 39, 37, 40, 37, 41, 42, 43, 43, 44, 44, 45,
    45, 46, 46, 47, 47, 48, 48, 49, 49, 50, 50, 42, 46, 51, 48, 52,
    53, 54, 54, 55, 55, 56, 56, 53
  >>

\* mesh_verts[n] and mesh_indices[n] of the source; C arrays start at 0.
VertAt(n) == mesh_verts[n + 1]

IndexAt(n) == mesh_indices[n + 1]

\* The spin increment with 1.0 for the cosine: longer than a unit vector.
rot0_UnitCosine == V2(4096, 214)

\* lroundf(4096*cosf(3 deg)), lroundf(4096*sinf(3 deg))
rot0 == V2(4090, 214)

\* lroundf(4096*cosf(1 deg)), lroundf(4096*sinf(1 deg))
loc0 == V2(4095, 71)

\* vec2(0x1000, 0), the vector both accumulators start from and are reset to.
Unit == V2(4096, 0)

----------------------------------------------------------------------------
\* Integer arithmetic of the target.

\* Conversion to int16_t: reduction modulo 2^16 into [-32768, 32767].
ToInt16(n) == ((n + 32768) % 65536) - 32768

InInt16(n) == n >= -32768 /\ n <= 32767

\* n >> k on a signed value: arithmetic shift, rounding toward minus infinity.
Shr(n, k) == n \div (2 ^ k)

Abs(n) == IF n < 0 THEN -n ELSE n

\* Division rounding toward minus infinity (not what C does).
CDiv_Floor(a, b) == a \div b

\* a / b of C for b # 0: the quotient truncated toward zero.
CDiv(a, b) ==
  IF (a >= 0) = (b > 0) THEN Abs(a) \div Abs(b) ELSE -(Abs(a) \div Abs(b))

\* What a / 0 may leave in the quotient: C leaves it undefined, the AVR has
\* no trap, the library routine returns some value.
DivByZeroOutcomes == {-1, 0, 1}

\* The possible values of a / b.
DivOutcomes(a, b) == IF b = 0 THEN DivByZeroOutcomes ELSE {CDiv(a, b)}

----------------------------------------------------------------------------
\* rotate (lines 257-263).

\* rotate with a shift of 8 instead of 12.
rotateWide_Shift8(v1, v2) ==
  V2(Shr(v1.x * v2.x - v1.y * v2.y, 8), Shr(v1.x * v2.y + v1.y * v2.x, 8))

\* The two 32-bit values of rotate before they are narrowed to int16_t.
rotateWide(v1, v2) ==
  V2(Shr(v1.x * v2.x - v1.y * v2.y, 12), Shr(v1.x * v2.y + v1.y * v2.x, 12))

\* rotate without the (int32_t) casts: the products and their sum or
\* difference are formed in the 16-bit int and wrap.
rotate_NoWiden(v1, v2) ==
  V2(ToInt16(Shr(ToInt16(ToInt16(v1.x * v2.x) - ToInt16(v1.y * v2.y)), 12)),
     ToInt16(Shr(ToInt16(ToInt16(v1.x * v2.y) + ToInt16(v1.y * v2.x)), 12)))

rotate(v1, v2) ==
  V2(ToInt16(rotateWide(v1, v2).x), ToInt16(rotateWide(v1, v2).y))

----------------------------------------------------------------------------
\* The transform-and-project pipeline, one vertex (lines 287-305).

Verts == 0 .. (NUM_VERTS - 1)

\* x with the sign of the second product wrong.
xWide_PlusSign(vtx, rot, loc) == Shr(vtx.x * rot.x + vtx.z * rot.y, 12) + loc.y

\* (... >> 12) + location.y, the 32-bit value narrowed into x (line 297).
xWide(vtx, rot, loc) == Shr(vtx.x * rot.x - vtx.z * rot.y, 12) + loc.y

\* (... >> 12) + location.x, the 32-bit value narrowed into z (line 298).
zWide(vtx, rot, loc) == Shr(vtx.x * rot.y + vtx.z * rot.x, 12) + loc.x

\* y0 + (location.x >> 2), before it is stored into y (line 299).
yWide(vtx, loc) == vtx.y + Shr(loc.x, 2)

\* z + MESH_DEPTH in int, before the shift (line 301).
zSumWide(vtx, rot, loc) == ToInt16(zWide(vtx, rot, loc)) + MESH_DEPTH

\* const int16_t z_prime = (z + MESH_DEPTH) >> 6 (line 301).
z_prime(vtx, rot, loc) == ToInt16(Shr(ToInt16(zSumWide(vtx, rot, loc)), 6))

\* The pairs (x/z_prime, y/z_prime) the divisions of line 302 may give.
Quotients(vtx, rot, loc) ==
  DivOutcomes(ToInt16(xWide(vtx, rot, loc)), z_prime(vtx, rot, loc))
    \X DivOutcomes(ToInt16(yWide(vtx, loc)), z_prime(vtx, rot, loc))

\* v2add (line 60): component-wise, each sum stored into an int16_t.
v2add(a, b) == V2(ToInt16(a.x + b.x), ToInt16(a.y + b.y))

\* vec2(SCREEN_WIDTH>>1, SCREEN_HEIGHT>>1) (line 303).
screen_offset == V2(Shr(SCREEN_WIDTH, 1), Shr(SCREEN_HEIGHT, 1))

\* screen_verts[i] for the quotient pair q (lines 302-304).
ScreenVert(q) == v2add(V2(ToInt16(q[1]), ToInt16(q[2])), screen_offset)

\* The whole vertex loop: every screen buffer it can produce from rot, loc.
\* A vertex whose z_prime is not 0 has exactly one quotient pair.
FrameBuffers(rot, loc) ==
  LET zero == {n \in Verts : z_prime(VertAt(n), rot, loc) = 0}
  IN  { [n \in Verts |->
           IF n \in zero
             THEN ScreenVert(g[n])
             ELSE ScreenVert(CHOOSE q \in Quotients(VertAt(n), rot, loc) : TRUE)]
        : g \in [zero -> DivByZeroOutcomes \X DivByZeroOutcomes] }

----------------------------------------------------------------------------
\* The animation advance (lines 269-282).

\* The reset taken one frame late (> instead of >=).
Advance_ResetLate(v, step, counter, period) ==
  IF (counter + 1) % 65536 > period
    THEN [vec |-> Unit, counter |-> 0]
    ELSE [vec |-> rotate(v, step), counter |-> (counter + 1) % 65536]

\* v = rotate(v, step); if (++counter >= period) { counter = 0; v = Unit; }
Advance(v, step, counter, period) ==
  IF (counter + 1) % 65536 >= period
    THEN [vec |-> Unit, counter |-> 0]
    ELSE [vec |-> rotate(v, step), counter |-> (counter + 1) % 65536]

\* The animation state before the first call of loop() (lines 180-199).
AnimInit ==
  [rotation |-> Unit, rotation_counter |-> 0,
   location |-> Unit, location_counter |-> 0]

\* One execution of lines 269-282 on the animation state a.
AnimStep(a) ==
  LET r == Advance(a.rotation, rot0, a.rotation_counter, ROTATION_PERIOD)
      l == Advance(a.location, loc0, a.location_counter, LOCATION_PERIOD)
  IN  [rotation |-> r.vec, rotation_counter |-> r.counter,
       location |-> l.vec, location_counter |-> l.counter]

\* Lines 269-282 executed k times from a.
RECURSIVE AnimIter(_, _)
AnimIter(a, k) == IF k = 0 THEN a ELSE AnimStep(AnimIter(a, k - 1))

\* The animation state after n calls of loop() from the initial state
\* (lines 269-282 executed n times).
AnimAfter(n) == AnimIter(AnimInit, n)

----------------------------------------------------------------------------
\* The calls loop() makes on the display (lines 307-331).

ClearCall == <<"clearDisplay">>

PresentCall == <<"display">>

\* What a read of screen_verts[n] may give: the entry, or for n outside the
\* array whatever lies behind it in memory.
ScreenReads(sv, n) ==
  IF n \in DOMAIN sv THEN {sv[n]} ELSE {V2(0, 0), V2(-1, -1)}

\* display.drawLine(x1, y1, x2, y2, SSD1306_WHITE) with endpoints p1, p2.
LineCall(p1, p2) == <<"drawLine", p1.x, p1.y, p2.x, p2.y>>

\* The draw loop run to its end on the buffer sv: its calls, in order.
LineCalls(sv) ==
  [k \in 1 .. (NUM_INDICES \div 2) |->
     LineCall(sv[IndexAt(2 * (k - 1))], sv[IndexAt(2 * (k - 1) + 1)])]

----------------------------------------------------------------------------
\* The state after construction: the initialisers of lines 166-205, with
\* loop() about to be called for the first time.

ProgramInit ==
  /\ rotation = Unit
  /\ location = Unit
  /\ rotation_counter = 0
  /\ location_counter = 0
  /\ screen_verts = [n \in Verts |-> V2(0, 0)]
  /\ fps_counter = 0
  /\ fps_display = 0
  /\ pc = "rotate"
  /\ i = 0
  /\ reg = 0
  /\ calls = << >>
  /\ written = [n \in Verts |-> 0]
  /\ serial = << >>
  /\ completed = 0
  /\ event = "init"

Init == ProgramInit /\ rin = << >> /\ rout = << >>

----------------------------------------------------------------------------
\* loop(), one statement at a time.

\* Lines 269-282: both accumulators advance, each reset on its period.
RotateVectors ==
  /\ pc = "rotate"
  /\ location_counter < MaxFrames
  /\ LET r == Advance(rotation, rot0, rotation_counter, ROTATION_PERIOD)
         l == Advance(location, loc0, location_counter, LOCATION_PERIOD)
     IN  /\ rotation' = r.vec
         /\ rotation_counter' = r.counter
         /\ location' = l.vec
         /\ location_counter' = l.counter
  /\ calls' = << >>
  /\ written' = [n \in Verts |-> 0]
  /\ i' = 0
  /\ pc' = "transform"
  /\ event' = "rotate"
  /\ UNCHANGED << screen_verts, fps_counter, fps_display, reg, serial,
                  completed, rin, rout >>

\* The vertex loop leaving one pass early: the last entry is not written.
TransformVertex_SkipsLast ==
  /\ pc = "transform"
  /\ \E q \in Quotients(VertAt(i), rotation, location) :
       screen_verts' = [screen_verts EXCEPT ![i] = ScreenVert(q)]
  /\ written' = [written EXCEPT ![i] = @ + 1]
  /\ i' = i + 1
  /\ pc' = IF i + 1 < NUM_VERTS - 1 THEN "transform" ELSE "clear"
  /\ event' = "transform"
  /\ UNCHANGED << rotation, location, rotation_counter, location_counter,
                  fps_counter, fps_display, reg, calls, serial, completed,
                  rin, rout >>

\* Lines 287-305: one pass of the vertex loop.
TransformVertex ==
  /\ pc = "transform"
  /\ \E q \in Quotients(VertAt(i), rotation, location) :
       screen_verts' = [screen_verts EXCEPT ![i] = ScreenVert(q)]
  /\ written' = [written EXCEPT ![i] = @ + 1]
  /\ i' = i + 1
  /\ pc' = IF i + 1 < NUM_VERTS THEN "transform" ELSE "clear"
  /\ event' = "transform"
  /\ UNCHANGED << rotation, location, rotation_counter, location_counter,
                  fps_counter, fps_display, reg, calls, serial, completed,
                  rin, rout >>

\* Line 307: display.clearDisplay().
ClearDisplay ==
  /\ pc = "clear"
  /\ calls' = Append(calls, ClearCall)
  /\ i' = 0
  /\ pc' = "draw"
  /\ event' = "clear"
  /\ UNCHANGED << rotation, location, rotation_counter, location_counter,
                  screen_verts, fps_counter, fps_display, reg, written,
                  serial, completed, rin, rout >>

\* The draw loop leaving after 67 of the 68 index pairs.
DrawLine_StopsEarly ==
  /\ pc = "draw"
  /\ \E p1 \in ScreenReads(screen_verts, IndexAt(i)),
        p2 \in ScreenReads(screen_verts, IndexAt(i + 1)) :
       calls' = Append(calls, LineCall(p1, p2))
  /\ i' = i + 2
  /\ pc' = IF i + 2 < NUM_INDICES - 2 THEN "draw" ELSE "display"
  /\ event' = "draw"
  /\ UNCHANGED << rotation, location, rotation_counter, location_counter,
                  screen_verts, fps_counter, fps_display, reg, written,
                  serial, completed, rin, rout >>

\* Lines 313-321: one pass of the draw loop.
DrawLine ==
  /\ pc = "draw"
  /\ \E p1 \in ScreenReads(screen_verts, IndexAt(i)),
        p2 \in ScreenReads(screen_verts, IndexAt(i + 1)) :
       calls' = Append(calls, LineCall(p1, p2))
  /\ i' = i + 2
  /\ pc' = IF i + 2 < NUM_INDICES THEN "draw" ELSE "display"
  /\ event' = "draw"
  /\ UNCHANGED << rotation, location, rotation_counter, location_counter,
                  screen_verts, fps_counter, fps_display, reg, written,
                  serial, completed, rin, rout >>

\* Line 331: display.display().
Present ==
  /\ pc = "display"
  /\ calls' = Append(calls, PresentCall)
  /\ pc' = "load"
  /\ event' = "display"
  /\ UNCHANGED << rotation, location, rotation_counter, location_counter,
                  screen_verts, fps_counter, fps_display, i, reg, written,
                  serial, completed, rin, rout >>

\* Line 333, ++fps_counter, first instruction: lds, fps_counter to a register.
LoadCounter ==
  /\ pc = "load"
  /\ reg' = fps_counter
  /\ pc' = "store"
  /\ event' = "load"
  /\ UNCHANGED << rotation, location, rotation_counter, location_counter,
                  screen_verts, fps_counter, fps_display, i, calls, written,
                  serial, completed, rin, rout >>

\* Line 333, ++fps_counter, the rest: the register plus one (uint8_t) is
\* stored back, and loop() returns.
StoreCounter ==
  /\ pc = "store"
  /\ fps_counter' = (reg + 1) % 256
  /\ completed' = completed + 1
  /\ pc' = "rotate"
  /\ event' = "store"
  /\ UNCHANGED << rotation, location, rotation_counter, location_counter,
                  screen_verts, fps_display, i, reg, calls, written, serial,
                  rin, rout >>

----------------------------------------------------------------------------
\* ISR(TIMER1_COMPA_vect) (lines 339-346).  It runs with interrupts
\* disabled, so it is one step; the timer is free to fire at any time.

\* The two assignments in the other order.
TimerISR_ResetFirst ==
  /\ fps_counter' = 0
  /\ fps_display' = 0
  /\ serial' = << 0 >>
  /\ completed' = 0
  /\ event' = "isr"
  /\ UNCHANGED << rotation, location, rotation_counter, location_counter,
                  screen_verts, pc, i, reg, calls, written, rin, rout >>

\* The handler also clearing rotation_counter, a counter of the main loop.
TimerISR_ClearsRotationCounter ==
  /\ fps_display' = fps_counter
  /\ fps_counter' = 0
  /\ rotation_counter' = 0
  /\ serial' = << fps_counter >>
  /\ completed' = 0
  /\ event' = "isr"
  /\ UNCHANGED << rotation, location, location_counter, screen_verts, pc, i,
                  reg, calls, written, rin, rout >>

TimerISR ==
  /\ fps_display' = fps_counter
  /\ fps_counter' = 0
  /\ serial' = << fps_counter >>
  /\ completed' = 0
  /\ event' = "isr"
  /\ UNCHANGED << rotation, location, rotation_counter, location_counter,
                  screen_verts, pc, i, reg, calls, written, rin, rout >>

Next ==
  \/ RotateVectors
  \/ TransformVertex
  \/ ClearDisplay
  \/ DrawLine
  \/ Present
  \/ LoadCounter
  \/ StoreCounter
  \/ TimerISR

Spec == Init /\ [][Next]_vars

----------------------------------------------------------------------------
\* loop(), one whole call per step (lines 265-334), for the runs over the
\* full animation cycle.  The statements are those of the single steps above,
\* composed in program order.

Loop ==
  /\ pc = "rotate"
  /\ fps_counter < MaxFps
  /\ LET r == Advance(rotation, rot0, rotation_counter, ROTATION_PERIOD)
         l == Advance(location, loc0, location_counter, LOCATION_PERIOD)
     IN  /\ rotation' = r.vec
         /\ rotation_counter' = r.counter
         /\ location' = l.vec
         /\ location_counter' = l.counter
         /\ \E sv \in FrameBuffers(r.vec, l.vec) :
              /\ screen_verts' = sv
              /\ calls' = << ClearCall >> \o LineCalls(sv) \o << PresentCall >>
  /\ written' = [n \in Verts |-> 1]
  /\ i' = NUM_INDICES
  /\ reg' = fps_counter
  /\ fps_counter' = (fps_counter + 1) % 256
  /\ completed' = completed + 1
  /\ pc' = "rotate"
  /\ event' = "loop"
  /\ UNCHANGED << fps_display, serial, rin, rout >>

NextFrames ==
  \/ Loop
  \/ TimerISR

SpecFrames == Init /\ [][NextFrames]_vars

----------------------------------------------------------------------------
\* rotate as a function of its operands.

\* Operands at which the two ways of composing three factors differ most.
AnchorV == V2(-3512, 3585)

AnchorA == V2(-2382, 12)

AnchorB == V2(3164, -4092)

\* The fixed-point values from -1.0 to 1.0.
UnitRange == -4096 .. 4096

Near(c) == {n \in (c - Spread) .. (c + Spread) : n \in UnitRange}

NearVec(c) == {V2(a, b) : a \in Near(c.x), b \in Near(c.y)}

CornerVecs == {V2(a, b) : a \in {-4096, 0, 4096}, b \in {-4096, 0, 4096}}

RotateInputs ==
  {[v |-> v, a |-> a, b |-> b] : v \in CornerVecs, a \in CornerVecs, b \in CornerVecs}
    \cup
  {[v |-> v, a |-> a, b |-> b] :
     v \in NearVec(AnchorV), a \in NearVec(AnchorA), b \in NearVec(AnchorB)}

InitRotate == ProgramInit /\ rin \in RotateInputs /\ rout = << >>

\* rotate(rotate(v, a), b) and rotate(v, rotate(a, b)) are computed.
Associate ==
  /\ rout = << >>
  /\ rout' = [lhs |-> rotate(rotate(rin.v, rin.a), rin.b),
              rhs |-> rotate(rin.v, rotate(rin.a, rin.b))]
  /\ UNCHANGED << rotation, location, rotation_counter, location_counter,
                  screen_verts, fps_counter, fps_display, pc, i, reg, calls,
                  written, serial, completed, event, rin >>

NextRotate == Associate

SpecRotate == InitRotate /\ [][NextRotate]_vars

----------------------------------------------------------------------------
\* The depth denominator.

\* C1: in every animation state the frame loop reaches, and for each of the
\* 57 mesh vertices, z_prime = (z + MESH_DEPTH) >> 6 is strictly positive:
\* the perspective divide never divides by zero or by a negative number.
C1_DepthPositive ==
  \A n \in Verts : z_prime(VertAt(n), rotation, location) > 0

\* A frame has been projected in which a vertex comes as near as it ever
\* does (z_prime = 28).
C1_Witness ==
  /\ event = "loop"
  /\ \E n \in Verts : z_prime(VertAt(n), rotation, location) = 28

----------------------------------------------------------------------------
\* The frame counter and the sampler.

\* C2: with the interrupt free to fire between any two instructions of
\* loop(), also between the load and the store of ++fps_counter, every
\* sample stored in fps_display differs by at most 1 from the number of
\* loop() calls completed since the previous firing, the frame counter is
\* off by at most 1, and no reset of fps_counter by the interrupt is lost
\* (the store of ++fps_counter leaves the value it found plus one).
C2_TornIncrementOffByOne ==
  [][ /\ (event' = "isr" => Abs(fps_display' - completed) <= 1)
      /\ Abs(fps_counter' - completed') <= 1
      /\ (event' = "store" => fps_counter' = (fps_counter + 1) % 256)
    ]_vars

\* C3: on every firing of the interrupt, fps_display afterwards is the value
\* fps_counter had immediately before, and fps_counter afterwards is 0.
C3_SampleAndReset ==
  [][event' = "isr" => (fps_display' = fps_counter /\ fps_counter' = 0)]_vars

\* The interrupt has just fired after two counted frames.
C3_Witness ==
  /\ event = "isr"
  /\ fps_display = 2
  /\ fps_counter = 0

\* C4: after k loop() calls completed since start or since the last firing
\* of the interrupt, fps_counter is k.
C4_CounterIsCompleted == fps_counter = completed

----------------------------------------------------------------------------
\* The animation advance.

\* C5: in each frame an accumulator is reset exactly if its incremented
\* counter reaches the period (120 for rotation, 360 for location); the
\* reset replaces the vector rotate has just computed, and the pipeline of
\* that frame works on the values after the reset.  Without a reset the
\* counter is one higher and the vector is rotate of the old one.  After the
\* advance the counter is below the period, and a counter of 0 comes with
\* the vector (4096, 0).
C5_ResetOnPeriod ==
  [][event' = "loop" =>
       /\ IF rotation_counter + 1 = 120
            THEN rotation_counter' = 0 /\ rotation' = V2(4096, 0)
            ELSE /\ rotation_counter' = rotation_counter + 1
                 /\ rotation_counter' # 0
                 /\ rotation' = rotate(rotation, rot0)
       /\ IF location_counter + 1 = 360
            THEN location_counter' = 0 /\ location' = V2(4096, 0)
            ELSE /\ location_counter' = location_counter + 1
                 /\ location_counter' # 0
                 /\ location' = rotate(location, loc0)
       /\ rotation_counter' \in 0 .. 119
       /\ location_counter' \in 0 .. 359
       /\ (rotation_counter' = 0 => rotation' = V2(4096, 0))
       /\ (location_counter' = 0 => location' = V2(4096, 0))
       /\ screen_verts' \in FrameBuffers(rotation', location')
    ]_vars

\* The frame in which both accumulators were reset has been rendered.
C5_Witness ==
  /\ event = "loop"
  /\ rotation_counter = 0
  /\ location_counter = 0
  /\ rotation = V2(4096, 0)
  /\ location = V2(4096, 0)

----------------------------------------------------------------------------
\* The display calls of a frame.

\* C6: in every call of loop() the display is called in the order
\* clearDisplay once, drawLine 68 times (one call per index pair of
\* mesh_indices, in list order), display() once; all 57 entries of
\* screen_verts are written before clearDisplay; fps_counter is incremented
\* only after display().
C6_DisplayCallOrder ==
  [][ /\ Len(calls') <= 70
      /\ \A p \in 1 .. Len(calls') :
           calls'[p] =
             IF p = 1 THEN << "clearDisplay" >>
             ELSE IF p = 70 THEN << "display" >>
             ELSE LET p1 == screen_verts'[mesh_indices[2 * (p - 2) + 1]]
                      p2 == screen_verts'[mesh_indices[2 * (p - 2) + 2]]
                  IN  << "drawLine", p1.x, p1.y, p2.x, p2.y >>
      /\ (calls' # << >> => \A n \in Verts : written'[n] = 1)
      /\ (event' # "isr" /\ fps_counter' # fps_counter =>
            Len(calls) = 70 /\ calls[70] = << "display" >>)
    ]_vars

\* A call of loop() has returned: 70 display calls, then the increment.
C6_Witness ==
  /\ event = "store"
  /\ Len(calls) = 70
  /\ fps_counter = 1

----------------------------------------------------------------------------
\* The ranges of the arithmetic.

\* C7: every value the code narrows to int16_t is within [-32768, 32767]
\* before it is narrowed: both components of rotate for the two
\* accumulators, and for each vertex the pipeline's x, z and y, the sum
\* z + MESH_DEPTH, the two quotients and the screen coordinates after
\* (64, 32) is added.
C7_NoWrap ==
  /\ InInt16(rotateWide(rotation, rot0).x)
  /\ InInt16(rotateWide(rotation, rot0).y)
  /\ InInt16(rotateWide(location, loc0).x)
  /\ InInt16(rotateWide(location, loc0).y)
  /\ \A n \in Verts :
       /\ InInt16(xWide(VertAt(n), rotation, location))
       /\ InInt16(zWide(VertAt(n), rotation, location))
       /\ InInt16(yWide(VertAt(n), location))
       /\ InInt16(zSumWide(VertAt(n), rotation, location))
       /\ \A q \in Quotients(VertAt(n), rotation, location) :
            /\ InInt16(q[1])
            /\ InInt16(q[2])
            /\ InInt16(q[1] + 64)
            /\ InInt16(q[2] + 32)

\* A frame has been projected in which x of a vertex is at its most
\* negative (-8970).
C7_Witness ==
  /\ event = "loop"
  /\ \E n \in Verts : xWide(VertAt(n), rotation, location) = -8970

----------------------------------------------------------------------------
\* rotate as an operation on fixed-point complex numbers.

\* C8: for all v, a, b with components in [-4096, 4096], each component of
\* rotate(rotate(v, a), b) differs from that of rotate(v, rotate(a, b)) by
\* at most 1.
C8_AssociativeWithinOne ==
  rout # << >> =>
    /\ Abs(rout.lhs.x - rout.rhs.x) <= 1
    /\ Abs(rout.lhs.y - rout.rhs.y) <= 1

\* C8, amended: for all v, a, b with components in [-4096, 4096], each
\* component of rotate(rotate(v, a), b) differs from that of
\* rotate(v, rotate(a, b)) by at most 4.
C8_AssociativeWithinFour ==
  rout # << >> =>
    /\ Abs(rout.lhs.x - rout.rhs.x) <= 4
    /\ Abs(rout.lhs.y - rout.rhs.y) <= 4

\* Both compositions have been computed and a component differs by 4.
C8_Witness ==
  /\ rout # << >>
  /\ \/ Abs(rout.lhs.x - rout.rhs.x) = 4
     \/ Abs(rout.lhs.y - rout.rhs.y) = 4

----------------------------------------------------------------------------
\* The reference projection.

\* C9: with rotation = (4096, 0) and location = (4096, 0), the state right
\* after both resets, the pipeline gives for each vertex x = x0 + sway.y,
\* z = z0 + sway.x, y = y0 + (sway.x >> 2), z' = (z + 0x2a00) >> 6 and
\* screen = (x / z' + 64, y / z' + 32), the division truncating toward
\* zero; for the cube vertices 0..7 that is (71,43), (57,43), (57,29),
\* (71,29), (74,47), (54,47), (54,27), (74,27).
C9_IdentityProjection ==
  (rotation = V2(4096, 0) /\ location = V2(4096, 0) /\ calls # << >>) =>
    /\ \A n \in Verts :
         LET x  == VertAt(n).x + location.y
             z  == VertAt(n).z + location.x
             y  == VertAt(n).y + Shr(location.x, 2)
             zp == Shr(z + 10752, 6)
         IN  screen_verts[n] = V2(CDiv(x, zp) + 64, CDiv(y, zp) + 32)
    /\ << screen_verts[0], screen_verts[1], screen_verts[2], screen_verts[3],
          screen_verts[4], screen_verts[5], screen_verts[6], screen_verts[7] >>
         = << V2(71, 43), V2(57, 43), V2(57, 29), V2(71, 29),
              V2(74, 47), V2(54, 47), V2(54, 27), V2(74, 27) >>

\* The frame in which both accumulators were reset has been projected.
C9_Witness ==
  /\ event = "loop"
  /\ rotation = V2(4096, 0)
  /\ location = V2(4096, 0)
  /\ screen_verts[0] = V2(71, 43)

----------------------------------------------------------------------------
\* The edge list.

\* C10: mesh_verts has 57 entries and mesh_indices 136, every entry of
\* mesh_indices is below 57, and so every access the draw loop makes to
\* screen_verts is within the 57-entry buffer.
C10_IndicesInBounds ==
  /\ Len(mesh_verts) = 57
  /\ Len(mesh_indices) = 136
  /\ DOMAIN screen_verts = 0 .. 56
  /\ \A j \in 1 .. Len(mesh_indices) : mesh_indices[j] \in 0 .. 56
  /\ pc = "draw" =>
       /\ i + 1 < Len(mesh_indices)
       /\ IndexAt(i) \in DOMAIN screen_verts
       /\ IndexAt(i + 1) \in DOMAIN screen_verts

\* The draw loop is at its last pair, which reads entries 56 and 53.
C10_Witness ==
  /\ pc = "draw"
  /\ i = 134
  /\ IndexAt(i) = 56
  /\ IndexAt(i + 1) = 53

----------------------------------------------------------------------------
\* The sampler and the animation.

\* C11: a firing of the interrupt, wherever in the frame it preempts loop(),
\* leaves rotation, location, rotation_counter, location_counter and every
\* entry of screen_verts unchanged (and with them the position of loop()
\* and the display calls made so far); so the animation state of a frame
\* is the one n calls of loop() give without any firing.
C11_SamplerLeavesAnimation ==
  [][ /\ (event' = "isr" =>
            UNCHANGED << rotation, location, rotation_counter,
                         location_counter, screen_verts, pc, i, calls,
                         written >>)
      /\ [rotation |-> rotation', rotation_counter |-> rotation_counter',
          location |-> location', location_counter |-> location_counter']
           = AnimAfter(location_counter')
      /\ (calls' # << >> => screen_verts' \in FrameBuffers(rotation', location'))
    ]_vars

\* The interrupt has just fired in the middle of the vertex loop of the
\* second frame, after a firing-free first frame.
C11_Witness ==
  /\ event = "isr"
  /\ pc = "transform"
  /\ i = 30
  /\ location_counter = 2
  /\ fps_display = 1

----------------------------------------------------------------------------
\* The rotation inlined in the pipeline.

\* C12: for every mesh vertex (x0, y0, z0) and every spin and sway value
\* the frame loop reaches, the pipeline's (x - location.y, z - location.x)
\* is rotate((x0, z0), rotation), component for component.
C12_InlineRotationIsRotate ==
  \A n \in Verts :
    LET x == ToInt16(xWide(VertAt(n), rotation, location))
        z == ToInt16(zWide(VertAt(n), rotation, location))
        r == rotate(V2(VertAt(n).x, VertAt(n).z), rotation)
    IN  /\ x - location.y = r.x
        /\ z - location.x = r.y

\* A frame has been projected with the mesh turned by a quarter (frame 30
\* of the spin), where rotate moves every vertex off its model position.
C12_Witness ==
  /\ event = "loop"
  /\ rotation_counter = 30
  /\ \A n \in 0 .. 7 :
       rotate(V2(VertAt(n).x, VertAt(n).z), rotation).x # VertAt(n).x

----------------------------------------------------------------------------
\* The screen buffer within a frame.

\* C13: in every call of loop() each of the 57 entries of screen_verts is
\* written exactly once, from the accumulator values of that call, before
\* the draw loop reads any entry: while the vertex loop runs, the entries
\* below its index are written once and hold the projection of the current
\* (rotation, location), the others are not yet written; from clearDisplay
\* to the return of loop() all are written once, the buffer is the
\* projection of the current (rotation, location), and every drawLine call
\* made carries coordinates of that buffer.
C13_BufferOfThisFrame ==
  /\ \A n \in Verts : written[n] <= 1
  /\ pc = "transform" =>
       /\ calls = << >>
       /\ \A n \in Verts :
            /\ written[n] = (IF n < i THEN 1 ELSE 0)
            /\ n < i =>
                 \E q \in Quotients(VertAt(n), rotation, location) :
                   screen_verts[n] = ScreenVert(q)
  /\ (pc = "clear" \/ calls # << >>) =>
       /\ \A n \in Verts : written[n] = 1
       /\ screen_verts \in FrameBuffers(rotation, location)
       /\ \A p \in 1 .. Len(calls) :
            calls[p][1] = "drawLine" =>
              calls[p] = LineCall(screen_verts[mesh_indices[2 * (p - 2) + 1]],
                                  screen_verts[mesh_indices[2 * (p - 2) + 2]])

\* The draw loop of the third frame is under way: the buffer held the
\* second frame's projection when this call of loop() began.
C13_Witness ==
  /\ pc = "draw"
  /\ i = 68
  /\ location_counter = 3
  /\ Len(calls) = 35

----------------------------------------------------------------------------
\* The accumulators over the animation cycle.

\* C14: in every state the frame loop reaches, rotation.x, rotation.y,
\* location.x and location.y are within [-4096, 4096]; so are the values
\* lines 269 and 277 assign next, which a reset on the following line may
\* replace.
C14_AccumulatorsWithinUnit ==
  \A v \in { rotation, location, rotate(rotation, rot0), rotate(location, loc0) } :
    /\ v.x \in -4096 .. 4096
    /\ v.y \in -4096 .. 4096

\* Frame 90: rotation has turned by three quarters of pi and a half more,
\* its y component at the lowest value of the cycle.
C14_Witness ==
  /\ event = "loop"
  /\ rotation_counter = 90
  /\ rotation = V2(-15, -4053)
  /\ location = V2(45, 4004)

\* C15: after the animation advance of every frame rotation_counter is
\* location_counter mod 120, location_counter having gone up by one modulo
\* 360; the new animation state is a function of the old one alone, so it is
\* determined by location_counter and takes 360 values; and it is the
\* initial state ((4096,0), 0, (4096,0), 0) exactly when location_counter is
\* 0, that is every 360 frames and at no frame between.
C15_Lockstep ==
  [][event' = "loop" =>
       /\ location_counter' = (location_counter + 1) % 360
       /\ rotation_counter' = location_counter' % 120
       /\ [rotation |-> rotation', rotation_counter |-> rotation_counter',
           location |-> location', location_counter |-> location_counter']
            = AnimStep([rotation |-> rotation,
                        rotation_counter |-> rotation_counter,
                        location |-> location,
                        location_counter |-> location_counter])
       /\ (location_counter' = 0 <=>
             (rotation' = V2(4096, 0) /\ rotation_counter' = 0 /\
              location' = V2(4096, 0)))
    ]_vars

\* Frame 240: the spin has just been reset for the second time, the sway is
\* two thirds through its cycle.
C15_Witness ==
  /\ event = "loop"
  /\ location_counter = 240
  /\ rotation_counter = 0
  /\ rotation = V2(4096, 0)
  /\ location # V2(4096, 0)

====
